---- MODULE Spec2Model ----
(***************************************************************************)
(* The switchboard of src/index.ts: an in-memory book of networks, each    *)
(* with a table of addresses (address -> time last seen) and a list of     *)
(* negotiationItems, driven by HTTP requests and a periodic sweep.         *)
(*                                                                         *)
(* Time is counted in units of 30 s (MAX_ADDRESS_AGE = 1 unit,             *)
(* CLEAN_INTERVAL = 2 units); `now` is Date.now() relative to the start of *)
(* the process.  Every handler runs to completion on node's single thread, *)
(* so each handler is one action.                                          *)
(***************************************************************************)
EXTENDS Integers, Sequences, FiniteSets, TLC

(***************************************************************************)
(* Bounds of the model.                                                    *)
(***************************************************************************)
MaxTime == 3
MaxBatch == 1

\* The negotiation TTL of the design, in the units of the model; the
\* handlers have no such constant.
NegotiationTtl == 1

Addresses == {"A", "B"}

(***************************************************************************)
(* Program constants.  The times are the source's values in units of 30 s; *)
(* the item maximum is the source's 500 scaled down to 2.                  *)
(***************************************************************************)
CLEAN_INTERVAL == 2
MAX_NEGOTIATIONS_ITEMS_PER_NETWORK == 2
MAX_ADDRESS_AGE == 1

(***************************************************************************)
(* Values of request fields.  Falsy stands for a field that is missing or  *)
(* empty (every `!x` test of the shape check succeeds on it), and          *)
(* NoNegotiation for an item without a `negotiation` object.  The optional *)
(* `timestamp` of a negotiation is <<>> when absent and <<t>> when set.    *)
(***************************************************************************)
Falsy == ""
NoTimestamp == <<>>
NoNegotiation ==
    [type |-> "undefined", connectionId |-> Falsy, sdp |-> Falsy,
     timestamp |-> NoTimestamp]

Offer ==
    [type |-> "offer", connectionId |-> "c1", sdp |-> "x",
     timestamp |-> NoTimestamp]

Item(from, for, negotiation) ==
    [from |-> from, for |-> for, negotiation |-> negotiation]

\* Well-formed items as clients submit them: an offer from A for B, one from
\* B for A, and one A addresses to itself.
WellFormedItems ==
    {Item("A", "B", Offer), Item("B", "A", Offer), Item("A", "A", Offer)}

\* One malformed item for each test of the shape check.
MalformedItems ==
    { Item(Falsy, "B", Offer),
      Item("A", Falsy, Offer),
      Item("A", "B", NoNegotiation),
      Item("A", "B", [Offer EXCEPT !.type = "candidate"]),
      Item("A", "B", [Offer EXCEPT !.connectionId = Falsy]),
      Item("A", "B", [Offer EXCEPT !.sdp = Falsy]) }

BatchesOf(items) == UNION { [1..k -> items] : k \in 0..MaxBatch }

\* A request body: either text that JSON.parse rejects, or an object.
Request(networkId, address, items) ==
    [parses |-> TRUE, networkId |-> networkId, address |-> address,
     negotiationItems |-> items]

NoRequest ==
    [parses |-> FALSE, networkId |-> Falsy, address |-> Falsy,
     negotiationItems |-> <<>>]

\* Bodies the handler rejects before it looks at the items.
RejectedBodies ==
    {NoRequest, Request("N1", Falsy, <<>>), Request(Falsy, "A", <<>>)}

\* The requests of Spec: every batch of well-formed items from either
\* address, and the bodies rejected at once.
Requests ==
    { Request("N1", a, items) :
        a \in Addresses, items \in BatchesOf(WellFormedItems) }
    \cup RejectedBodies

\* The requests of SpecShape: batches with one malformed item of each kind,
\* alone, before and after a well-formed item, and two malformed items.
ShapeBatches ==
    LET good == Item("A", "B", Offer)
        noFrom == Item(Falsy, "B", Offer)
        noSdp == Item("A", "B", [Offer EXCEPT !.sdp = Falsy])
    IN  {<<>>, <<good>>, <<good, good>>, <<good, noFrom>>, <<noSdp, good>>,
         <<noFrom, noSdp>>}
        \cup {<<m>> : m \in MalformedItems}

ShapeRequests ==
    { Request("N1", "A", items) : items \in ShapeBatches }
    \cup {Request("N1", "B", <<>>)}
    \cup RejectedBodies

\* The requests of SpecStamped: peers that set the `timestamp` of each
\* negotiation to the time at which they submit it.
StampedItems(t) ==
    { Item("A", "B", [Offer EXCEPT !.timestamp = <<t>>]),
      Item("B", "A", [Offer EXCEPT !.timestamp = <<t>>]) }

StampedRequests(t) ==
    { Request("N1", a, items) :
        a \in Addresses, items \in BatchesOf(StampedItems(t)) }

\* The requests of SpecHonest: every item a peer submits names that peer as
\* its sender.
OwnItems(address) == {item \in WellFormedItems : item.from = address}

HonestRequests ==
    UNION { { Request("N1", a, items) : items \in BatchesOf(OwnItems(a)) } :
              a \in Addresses }

\* The requests of SpecNetworks: the same two addresses on two networks.  On
\* N1 A submits offers for B and B polls; on N2 B submits offers for A and A
\* polls.  The offers of a network carry a connectionId of that network, so
\* that an item tells where it was submitted.
NetworkIds == {"N1", "N2"}

OfferOn(networkId) ==
    [Offer EXCEPT !.connectionId = IF networkId = "N1" THEN "c1" ELSE "c2"]

ItemsOn(networkId, address) ==
    IF networkId = "N1" /\ address = "A"
    THEN {Item("A", "B", OfferOn(networkId))}
    ELSE IF networkId = "N2" /\ address = "B"
    THEN {Item("B", "A", OfferOn(networkId))}
    ELSE {}

NetworkRequests ==
    UNION { { Request(na[1], na[2], items) :
                items \in BatchesOf(ItemsOn(na[1], na[2])) } :
              na \in NetworkIds \X Addresses }

VARIABLES
    book,        \* the address book: networkId -> [addresses, negotiationItems]
    now,         \* Date.now()
    nextSweep,   \* the time at which the setInterval callback is next due
    strict,      \* whether the runtime's writeHead throws once headers are sent
    crashed,     \* an exception left a handler uncaught: the process is gone
    last,        \* the handler that ran last: its request and what it answered
    inflight,    \* the POST requests whose `end` callback has not returned
    oldBook,     \* the book of the earlier variant: networkId -> negotiations
    oldNow,      \* Date.now() of the earlier variant
    oldLast      \* the earlier variant's last request and its response

\* What the request-at-once handlers leave alone: the requests in flight of
\* SpecInFlight and the state of the earlier variant.
others == <<inflight, oldBook, oldNow, oldLast>>

vars == <<book, now, nextSweep, strict, crashed, last, others>>

EmptyBook == [n \in {} |-> 0]
NoAddresses == [a \in {} |-> 0]

\* What `last` holds: op names the handler; status/error/addresses/
\* negotiationItems are the response the client receives; body is the GET
\* output; departed are the <<networkId, address>> pairs the handler deleted
\* from the presence tables.
Outcome(op, request, status, error, addresses, items, body, departed) ==
    [op |-> op, request |-> request, status |-> status, error |-> error,
     addresses |-> addresses, negotiationItems |-> items, body |-> body,
     departed |-> departed]

Idle == Outcome("none", NoRequest, 0, "", {}, <<>>, EmptyBook, {})

\* The <<networkId, address>> pairs that are in the tables of b and not of c.
Deleted(b, c) ==
    {<<n, a>> \in (DOMAIN b) \X Addresses :
        /\ a \in DOMAIN b[n].addresses
        /\ n \in DOMAIN c => a \notin DOMAIN c[n].addresses}

(***************************************************************************)
(* The shape check of the POST handler.  Each `return nope(..)` inside the *)
(* forEach callback returns from the callback only: the handler goes on    *)
(* with the next item and then with the store.  ItemNope is the argument   *)
(* of the nope call an item causes ("" when it causes none), Nopes the     *)
(* calls a batch causes, in order.                                         *)
(***************************************************************************)
ItemNope(item) ==
    IF item.from = Falsy THEN "from"
    ELSE IF item.for = Falsy THEN "for"
    ELSE IF item.negotiation = NoNegotiation THEN "negotiation"
    ELSE IF item.negotiation.type \notin {"offer", "answer"} THEN "type"
    ELSE IF item.negotiation.connectionId = Falsy THEN "connectionId"
    ELSE IF item.negotiation.sdp = Falsy THEN "sdp"
    ELSE ""

Nopes(items) ==
    SelectSeq([i \in 1..Len(items) |-> ItemNope(items[i])],
              LAMBDA reason : reason # "")

(***************************************************************************)
(* The store steps of the POST handler.                                    *)
(***************************************************************************)
NewNetwork == [addresses |-> NoAddresses, negotiationItems |-> <<>>]

\* if (!book[request.networkId]) book[request.networkId] = {...}
EnsureNetwork(b, networkId) ==
    IF networkId \in DOMAIN b THEN b
    ELSE [n \in DOMAIN b \cup {networkId} |->
            IF n = networkId THEN NewNetwork ELSE b[n]]

\* 1) book[networkId].addresses[address] = Date.now()
\* A touch that records only the first contact of an address.
TouchIfAbsent(b, networkId, address, t) ==
    [b EXCEPT ![networkId].addresses =
        [a \in DOMAIN @ \cup {address} |->
            IF a \in DOMAIN @ THEN @[a] ELSE t]]

Touch(b, networkId, address, t) ==
    [b EXCEPT ![networkId].addresses =
        [a \in DOMAIN @ \cup {address} |-> IF a = address THEN t ELSE @[a]]]

\* 2) book[networkId].negotiationItems.push(...request.negotiationItems):
\* the submitted objects, as they came.
Push(b, networkId, items) ==
    [b EXCEPT ![networkId].negotiationItems = @ \o items]

\* isExpired with the limit one unit too far.
isExpiredLate(expiry, t) == t - expiry > MAX_ADDRESS_AGE + 1

\* An expiry test that already fires at the TTL.
isExpiredAtTtl(expiry, t) == t - expiry >= MAX_ADDRESS_AGE

isExpired(expiry, t) == t - expiry > MAX_ADDRESS_AGE

\* cleanExpiredAddressesForNetworkId with the filter outside the test: the
\* items of every address on file are removed, expired or not.
cleanEveryAddressForNetworkId(b, networkId, t) ==
    LET addresses == b[networkId].addresses
        expired == {a \in DOMAIN addresses : isExpired(addresses[a], t)}
    IN  [b EXCEPT
           ![networkId].addresses = [a \in DOMAIN addresses \ expired |-> addresses[a]],
           ![networkId].negotiationItems =
               SelectSeq(@, LAMBDA item : item.from \notin DOMAIN addresses)]

\* 3) every expired address is deleted, and with each the items it sent.
\* An eviction that deletes the expired addresses and leaves the mailbox.
cleanAddressesOnlyForNetworkId(b, networkId, t) ==
    LET addresses == b[networkId].addresses
        expired == {a \in DOMAIN addresses : isExpired(addresses[a], t)}
    IN  [b EXCEPT
           ![networkId].addresses =
               [a \in DOMAIN addresses \ expired |-> addresses[a]]]

\* An eviction that goes over every network of the book.
cleanExpiredAddressesEverywhere(b, networkId, t) ==
    [n \in DOMAIN b |->
        LET addresses == b[n].addresses
            expired == {a \in DOMAIN addresses : isExpired(addresses[a], t)}
        IN  [addresses |-> [a \in DOMAIN addresses \ expired |-> addresses[a]],
             negotiationItems |->
                 SelectSeq(b[n].negotiationItems,
                           LAMBDA item : item.from \notin expired)]]

cleanExpiredAddressesForNetworkId(b, networkId, t) ==
    LET addresses == b[networkId].addresses
        expired == {a \in DOMAIN addresses : isExpired(addresses[a], t)}
    IN  [b EXCEPT
           ![networkId].addresses = [a \in DOMAIN addresses \ expired |-> addresses[a]],
           ![networkId].negotiationItems =
               SelectSeq(@, LAMBDA item : item.from \notin expired)]

\* negotiationItemsForRequester with `from` for `for`.
negotiationItemsFromRequester(b, networkId, address) ==
    SelectSeq(b[networkId].negotiationItems, LAMBDA item : item.from = address)

\* negotiationItemsForRequester taken after the trim: of the first MAX items.
negotiationItemsAfterTrim(b, networkId, address) ==
    LET items == b[networkId].negotiationItems
    IN  SelectSeq(
            IF Len(items) > MAX_NEGOTIATIONS_ITEMS_PER_NETWORK
            THEN SubSeq(items, 1, MAX_NEGOTIATIONS_ITEMS_PER_NETWORK)
            ELSE items,
            LAMBDA item : item.for = address)

\* 4) the items for the requesting address
negotiationItemsForRequester(b, networkId, address) ==
    SelectSeq(b[networkId].negotiationItems, LAMBDA item : item.for = address)

\* TrimTheFat with the splice one item too far.
TrimTheFatLate(b, networkId) ==
    LET items == b[networkId].negotiationItems
    IN  IF Len(items) > MAX_NEGOTIATIONS_ITEMS_PER_NETWORK + 1
        THEN [b EXCEPT ![networkId].negotiationItems =
                 SubSeq(items, 1, MAX_NEGOTIATIONS_ITEMS_PER_NETWORK + 1)]
        ELSE b

\* items.splice(MAX, items.length): removes what follows the first MAX items.
TrimTheFat(b, networkId) ==
    LET items == b[networkId].negotiationItems
    IN  IF Len(items) > MAX_NEGOTIATIONS_ITEMS_PER_NETWORK
        THEN [b EXCEPT ![networkId].negotiationItems =
                 SubSeq(items, 1, MAX_NEGOTIATIONS_ITEMS_PER_NETWORK)]
        ELSE b

\* `addresses.length === 0`: addresses is a plain object, whose `length` is
\* the entry of an address called "length", and undefined without one.
AddressesLengthIsZero(addresses) ==
    "length" \in DOMAIN addresses /\ addresses["length"] = 0

\* A cleanNetworkIfEmpty that looks at the mailbox instead of the addresses.
cleanNetworkIfMailboxEmpty(b, networkId) ==
    IF b[networkId].negotiationItems = <<>>
    THEN [n \in DOMAIN b \ {networkId} |-> b[n]]
    ELSE b

cleanNetworkIfEmpty(b, networkId) ==
    IF AddressesLengthIsZero(b[networkId].addresses)
    THEN [n \in DOMAIN b \ {networkId} |-> b[n]]
    ELSE b

\* for (const networkId in book) { clean...; cleanNetworkIfEmpty }
RECURSIVE SweepNetworks(_, _, _)
SweepNetworks(b, todo, t) ==
    IF todo = {} THEN b
    ELSE LET networkId == CHOOSE n \in todo : TRUE
         IN  SweepNetworks(
                 cleanNetworkIfEmpty(
                     cleanExpiredAddressesForNetworkId(b, networkId, t), networkId),
                 todo \ {networkId}, t)

(***************************************************************************)
(* The POST handler (the `end` callback), as one value: the book it        *)
(* leaves, what the client receives, and whether it ended in an uncaught   *)
(* exception.  The first writeHead/end pair is the response the client     *)
(* gets.  A later writeHead on the same response throws on a runtime that  *)
(* checks for sent headers (strictHeaders) and is without effect on one    *)
(* that does not; an exception thrown in the callback is caught by nobody. *)
(***************************************************************************)
HandlePost(b, request, t, strictHeaders) ==
    LET rejected(error, departed) ==
            Outcome("POST", request, 400, error, {}, <<>>, EmptyBook, departed)
        networkId == request.networkId
        nopes == Nopes(request.negotiationItems)
        b1 == EnsureNetwork(b, networkId)
        b2 == Touch(b1, networkId, request.address, t)
        b3 == Push(b2, networkId, request.negotiationItems)
        b4 == cleanExpiredAddressesForNetworkId(b3, networkId, t)
        ok == Outcome("POST", request, 200, "",
                      DOMAIN b4[networkId].addresses,
                      negotiationItemsForRequester(b4, networkId, request.address),
                      EmptyBook, Deleted(b3, b4))
    IN  IF ~request.parses
        THEN [book |-> b, last |-> rejected("json", {}), crashed |-> FALSE]
        ELSE IF request.address = Falsy
        THEN [book |-> b, last |-> rejected("address", {}), crashed |-> FALSE]
        ELSE IF networkId = Falsy
        THEN [book |-> b, last |-> rejected("networkId", {}), crashed |-> FALSE]
        ELSE IF strictHeaders /\ Len(nopes) >= 2
        \* the second nope throws inside the forEach
        THEN [book |-> b, last |-> rejected(nopes[1], {}), crashed |-> TRUE]
        ELSE IF strictHeaders /\ Len(nopes) = 1
        \* ok() throws after the store steps, before the trim
        THEN [book |-> b4, last |-> rejected(nopes[1], Deleted(b3, b4)),
              crashed |-> TRUE]
        ELSE IF Len(nopes) >= 1
        THEN [book |-> TrimTheFat(b4, networkId),
              last |-> rejected(nopes[1], Deleted(b3, b4)), crashed |-> FALSE]
        ELSE [book |-> TrimTheFat(b4, networkId), last |-> ok, crashed |-> FALSE]

(***************************************************************************)
(* The earlier variant of the switchboard (one stored negotiation per      *)
(* address): what its clients post and what it answers.                    *)
(***************************************************************************)
\* A posted body: text that JSON.parse rejects, or an object.
Body(type, address, networkId, connectionId, sdp) ==
    [parses |-> TRUE, type |-> type, address |-> address,
     networkId |-> networkId, connectionId |-> connectionId, sdp |-> sdp]

NoBody ==
    [parses |-> FALSE, type |-> "undefined", address |-> Falsy,
     networkId |-> Falsy, connectionId |-> Falsy, sdp |-> Falsy]

\* What `oldLast` holds: the handler that ran last and the body it got; the
\* response the client received (pool is the array of ok(), book the GET
\* output); and the stored negotiations that the delete statements of the
\* matching scheme removed.
OldOutcome(op, body, status, error, pool, output, removed) ==
    [op |-> op, body |-> body, status |-> status, error |-> error,
     pool |-> pool, book |-> output, removed |-> removed]

OldIdle == OldOutcome("none", NoBody, 0, "", <<>>, EmptyBook, {})

\* The connections the server has at a time.
MaxConnections == 2

Connections == 1..MaxConnections

\* `inflight` of a connection that carries no request.
Closed ==
    [step |-> "closed", wire |-> <<>>, stringifiedBody |-> <<>>,
     request |-> NoRequest, start |-> EmptyBook, sent |-> Idle,
     departed |-> {}]

\* No request is in flight.
NoConnections == [c \in Connections |-> Closed]

(***************************************************************************)
(* The state machine.                                                      *)
(***************************************************************************)
Start ==
    /\ book = EmptyBook
    /\ now = 0
    /\ nextSweep = CLEAN_INTERVAL
    /\ crashed = FALSE
    /\ last = Idle
    /\ inflight = NoConnections
    /\ oldBook = EmptyBook
    /\ oldNow = 0
    /\ oldLast = OldIdle

\* No request of Spec has a malformed item, so the runtime's treatment of a
\* second writeHead is immaterial there; SpecShape takes both.
Init == Start /\ strict = TRUE

Post(request) ==
    /\ ~crashed
    /\ LET result == HandlePost(book, request, now, strict)
       IN  /\ book' = result.book
           /\ last' = result.last
           /\ crashed' = result.crashed
    /\ UNCHANGED <<now, nextSweep, strict, others>>

\* A GET that runs the eviction of the sweep before it answers.
GetEvicting ==
    /\ ~crashed
    /\ book' = SweepNetworks(book, DOMAIN book, now)
    /\ last' = Outcome("GET", NoRequest, 200, "", {}, <<>>, book', {})
    /\ UNCHANGED <<now, nextSweep, strict, crashed, others>>

\* if (req.method === 'GET'): the whole book, as it is.
Get ==
    /\ ~crashed
    /\ last' = Outcome("GET", NoRequest, 200, "", {}, <<>>, book, {})
    /\ UNCHANGED <<book, now, nextSweep, strict, crashed, others>>

\* The setInterval callback, every CLEAN_INTERVAL.
Sweep ==
    /\ ~crashed
    /\ now = nextSweep
    /\ book' = SweepNetworks(book, DOMAIN book, now)
    /\ nextSweep' = nextSweep + CLEAN_INTERVAL
    /\ last' = Outcome("sweep", NoRequest, 0, "", {}, <<>>, EmptyBook,
                        Deleted(book, book'))
    /\ UNCHANGED <<now, strict, crashed, others>>

\* Time passes; a due sweep runs before it passes further.
Tick ==
    /\ ~crashed
    /\ now < MaxTime
    /\ now < nextSweep
    /\ now' = now + 1
    /\ last' = Idle
    /\ UNCHANGED <<book, nextSweep, strict, crashed, others>>

Next ==
    \/ \E request \in Requests : Post(request)
    \/ Get
    \/ Sweep
    \/ Tick

Spec == Init /\ [][Next]_vars

\* The same handlers, with requests that fail the shape check, on a runtime
\* of either kind.
InitShape == Start /\ strict \in BOOLEAN

NextShape ==
    \/ \E request \in ShapeRequests : Post(request)
    \/ Get
    \/ Sweep
    \/ Tick

SpecShape == InitShape /\ [][NextShape]_vars

\* The same handlers, with peers that stamp what they submit.
NextStamped ==
    \/ \E request \in StampedRequests(now) : Post(request)
    \/ Get
    \/ Sweep
    \/ Tick

SpecStamped == Init /\ [][NextStamped]_vars

\* The same handlers, with peers that submit only items of their own.
NextHonest ==
    \/ \E request \in HonestRequests : Post(request)
    \/ Get
    \/ Sweep
    \/ Tick

SpecHonest == Init /\ [][NextHonest]_vars

\* The same handlers, with the same addresses on two networks.
NextNetworks ==
    \/ \E request \in NetworkRequests : Post(request)
    \/ Get
    \/ Sweep
    \/ Tick

SpecNetworks == Init /\ [][NextNetworks]_vars

(***************************************************************************)
(* The POST handler callback by callback and statement by statement.  A    *)
(* POST request registers a `data` and an `end` callback and returns; the  *)
(* runtime delivers the body chunk by chunk, each request's chunks in      *)
(* order, those of different requests in any order, and then calls `end`.  *)
(* The runtime has one thread: it calls a callback only when no callback   *)
(* is on the stack, and a callback stays on the stack until it returns or  *)
(* yields.                                                                 *)
(***************************************************************************)
\* The requests of SpecInFlight: A submits an offer for B, and B polls.
InFlightRequests ==
    {Request("N1", "A", <<Item("A", "B", Offer)>>),
     Request("N1", "B", <<>>)}

\* The body of a request as the socket hands it over: two chunks when there
\* are items in it, one otherwise.
Chunks(request) ==
    IF request.negotiationItems # <<>>
    THEN <<[of |-> request, part |-> 1], [of |-> request, part |-> 2]>>
    ELSE <<[of |-> request, part |-> 1]>>

\* JSON.parse of the chunks put together: the request whose body they are,
\* or a failure.
Parse(stringifiedBody) ==
    IF stringifiedBody # <<>>
          /\ stringifiedBody = Chunks(stringifiedBody[1].of)
    THEN stringifiedBody[1].of
    ELSE NoRequest

\* A request of which no chunk has arrived: `wire` is what is still to come,
\* `stringifiedBody` what the data callback has put together, `step` where
\* the end callback stands; `request`, `sent` and `departed` are the end
\* callback's parsed body, the response it has sent, and the addresses its
\* eviction deleted; `start` is the book as the end callback found it.
Receiving(request) ==
    [step |-> "receiving", wire |-> Chunks(request), stringifiedBody |-> <<>>,
     request |-> NoRequest, start |-> EmptyBook, sent |-> Idle,
     departed |-> {}]

\* The checks before the forEach: the argument of the nope they end in.
EarlyNope(request) ==
    IF ~request.parses THEN "json"
    ELSE IF request.address = Falsy THEN "address"
    ELSE IF request.networkId = Falsy THEN "networkId"
    ELSE ""

\* An end callback that awaits the response before it trims.
YieldsBeforeTrim(step) == step = "trim"

\* Whether the end callback gives up the stack before the statement `step`:
\* it has no await and registers no callback, so it never does.
Yields(step) == FALSE

OffStack(handler) ==
    handler.step \in {"closed", "receiving"} \/ Yields(handler.step)

\* The runtime may call a new callback.
Dispatchable == \A c \in Connections : OffStack(inflight[c])

\* The end callback of c may go on.
Resumable(c) == \A d \in Connections \ {c} : OffStack(inflight[d])

Without(c) == [inflight EXCEPT ![c] = Closed]

oldVars == <<oldBook, oldNow, oldLast>>

\* http.createServer's callback for a POST request: it registers the two
\* callbacks and returns.
Connect(c, request) ==
    /\ ~crashed
    /\ Dispatchable
    /\ inflight[c] = Closed
    /\ inflight' = [inflight EXCEPT ![c] = Receiving(request)]
    /\ UNCHANGED <<book, now, nextSweep, strict, crashed, last, oldVars>>

\* req.on('data', chunk => stringifiedBody += chunk)
Data(c) ==
    /\ ~crashed
    /\ Dispatchable
    /\ inflight[c].step = "receiving"
    /\ inflight[c].wire # <<>>
    /\ inflight' = [inflight EXCEPT
                       ![c].stringifiedBody = @ \o <<Head(inflight[c].wire)>>,
                       ![c].wire = Tail(@)]
    /\ UNCHANGED <<book, now, nextSweep, strict, crashed, last, oldVars>>

\* The end callback is called: JSON.parse and the checks, up to the first
\* statement on the book.
End(c) ==
    /\ ~crashed
    /\ Dispatchable
    /\ inflight[c].step = "receiving"
    /\ inflight[c].wire = <<>>
    /\ LET request == Parse(inflight[c].stringifiedBody)
           early == EarlyNope(request)
           nopes == IF early = "" THEN Nopes(request.negotiationItems)
                    ELSE <<>>
           rejected(error) ==
               Outcome("POST", request, 400, error, {}, <<>>, EmptyBook, {})
       IN  IF early # ""
           THEN /\ inflight' = Without(c)
                /\ last' = rejected(early)
                /\ UNCHANGED crashed
           ELSE IF strict /\ Len(nopes) >= 2
           THEN /\ inflight' = Without(c)
                /\ last' = rejected(nopes[1])
                /\ crashed' = TRUE
           ELSE /\ inflight' =
                      [inflight EXCEPT ![c] =
                          [@ EXCEPT !.step = "create",
                                    !.request = request,
                                    !.start = book,
                                    !.sent = IF nopes = <<>> THEN Idle
                                             ELSE rejected(nopes[1])]]
                /\ UNCHANGED <<last, crashed>>
    /\ UNCHANGED <<book, now, nextSweep, strict, oldVars>>

\* The next statement of the end callback of c.
Step(c) ==
    /\ ~crashed
    /\ inflight[c].step \notin {"closed", "receiving"}
    /\ Resumable(c)
    /\ LET handler == inflight[c]
           networkId == handler.request.networkId
           address == handler.request.address
           goes(step) == inflight' = [inflight EXCEPT ![c].step = step]
           cleaned == cleanExpiredAddressesForNetworkId(book, networkId, now)
           ok == Outcome("POST", handler.request, 200, "",
                         DOMAIN book[networkId].addresses,
                         negotiationItemsForRequester(book, networkId, address),
                         EmptyBook, handler.departed)
           nope == [handler.sent EXCEPT !.departed = handler.departed]
       IN  CASE handler.step = "create" ->
                  /\ book' = EnsureNetwork(book, networkId)
                  /\ goes("touch")
                  /\ UNCHANGED <<last, crashed>>
             [] handler.step = "touch" ->
                  /\ book' = Touch(book, networkId, address, now)
                  /\ goes("push")
                  /\ UNCHANGED <<last, crashed>>
             [] handler.step = "push" ->
                  /\ book' = Push(book, networkId,
                                  handler.request.negotiationItems)
                  /\ goes("clean")
                  /\ UNCHANGED <<last, crashed>>
             [] handler.step = "clean" ->
                  /\ book' = cleaned
                  /\ inflight' = [inflight EXCEPT
                                     ![c].step = "respond",
                                     ![c].departed = Deleted(book, cleaned)]
                  /\ UNCHANGED <<last, crashed>>
             [] handler.step = "respond" /\ handler.sent = Idle ->
                  /\ inflight' = [inflight EXCEPT ![c].step = "trim",
                                                  ![c].sent = ok]
                  /\ UNCHANGED <<book, last, crashed>>
             [] handler.step = "respond" /\ handler.sent # Idle /\ strict ->
                  \* ok() throws: the callback is over, and so is the process
                  /\ inflight' = Without(c)
                  /\ last' = nope
                  /\ crashed' = TRUE
                  /\ UNCHANGED book
             [] handler.step = "respond" /\ handler.sent # Idle /\ ~strict ->
                  /\ inflight' = [inflight EXCEPT ![c].step = "trim",
                                                  ![c].sent = nope]
                  /\ UNCHANGED <<book, last, crashed>>
             [] handler.step = "trim" ->
                  /\ book' = TrimTheFat(book, networkId)
                  /\ inflight' = Without(c)
                  /\ last' = handler.sent
                  /\ UNCHANGED crashed
    /\ UNCHANGED <<now, nextSweep, strict, oldVars>>

\* The callbacks of the server, each called when the stack is free.
NextInFlight ==
    \/ \E c \in Connections, request \in InFlightRequests : Connect(c, request)
    \/ \E c \in Connections : Data(c)
    \/ \E c \in Connections : End(c)
    \/ \E c \in Connections : Step(c)
    \/ Dispatchable /\ Get
    \/ Dispatchable /\ Sweep
    \/ Dispatchable /\ Tick

SpecInFlight == Init /\ [][NextInFlight]_vars

(***************************************************************************)
(* The earlier variant of the switchboard.  Its book holds at most one     *)
(* negotiation per address and network; an object's values come in the     *)
(* order in which its keys were first assigned, so a network is the        *)
(* sequence of its negotiations in that order.  Its times are the source's *)
(* values in units of 3 min; the maximum is the source's 500 scaled down   *)
(* to 2.                                                                   *)
(***************************************************************************)
MAX_NEGOTIATIONS == 2
MAX_NEGOTIATION_AGE == 1

\* The negotiation the handler builds from a body at time t.
Negotiation(body, t) ==
    [sdp |-> body.sdp, address |-> body.address, networkId |-> body.networkId,
     type |-> body.type, timestamp |-> t, connectionId |-> body.connectionId]

\* The argument of the nope a body ends in, "" if in none.
BodyNope(body) ==
    IF ~body.parses THEN "json"
    ELSE IF body.sdp = Falsy THEN "sdp"
    ELSE IF body.address = Falsy THEN "address"
    ELSE IF body.networkId = Falsy THEN "networkId"
    ELSE IF body.connectionId = Falsy THEN "connectionId"
    ELSE IF body.type \notin {"offer", "answer"} THEN "type"
    ELSE ""

\* if (!book[networkId]) book[networkId] = {}
EnsurePool(b, networkId) ==
    IF networkId \in DOMAIN b THEN b
    ELSE [n \in DOMAIN b \cup {networkId} |->
            IF n = networkId THEN <<>> ELSE b[n]]

\* Object.values(pool).find(..): the first match as a sequence of one, or
\* the empty sequence for undefined.
getByConId(pool, conId, type) ==
    LET found == SelectSeq(pool, LAMBDA negotiation :
                     negotiation.connectionId = conId
                         /\ negotiation.type = type)
    IN  IF found = <<>> THEN <<>> ELSE <<found[1]>>

\* delete pool[address]
DeleteAddress(pool, address) ==
    SelectSeq(pool, LAMBDA negotiation : negotiation.address # address)

\* pool[address] = negotiation: in place when the key exists, last otherwise.
PutAddress(pool, negotiation) ==
    IF \E i \in 1..Len(pool) : pool[i].address = negotiation.address
    THEN [i \in 1..Len(pool) |->
             IF pool[i].address = negotiation.address THEN negotiation
             ELSE pool[i]]
    ELSE Append(pool, negotiation)

\* The negotiations of the pool stored under one of the addresses.
StoredUnder(pool, addresses) ==
    {pool[i] : i \in {j \in 1..Len(pool) : pool[j].address \in addresses}}

\* The matching scheme: the pool it leaves, the pool it answers with, and the
\* stored negotiations its delete statements removed.
Match(pool, negotiation) ==
    LET address == negotiation.address
        relatedOffer == getByConId(pool, negotiation.connectionId, "offer")
        relatedAnswer == getByConId(pool, negotiation.connectionId, "answer")
    IN  IF negotiation.type = "answer"
        THEN LET gone == {relatedOffer[i].address : i \in 1..Len(relatedOffer)}
                 posted == PutAddress(
                     IF relatedOffer # <<>>
                     THEN DeleteAddress(pool, relatedOffer[1].address)
                     ELSE pool,
                     negotiation)
             IN  [pool |-> posted, sent |-> posted,
                  removed |-> StoredUnder(pool, gone \ {address})]
        ELSE IF relatedAnswer # <<>>
        THEN [pool |-> DeleteAddress(
                           DeleteAddress(pool, relatedAnswer[1].address),
                           address),
              sent |-> pool,
              removed |-> StoredUnder(pool,
                                      {relatedAnswer[1].address, address})]
        ELSE LET posted == PutAddress(pool, negotiation)
             IN  [pool |-> posted, sent |-> posted, removed |-> {}]

\* The garbage collection of the request's network.
CollectOld(pool, t) ==
    SelectSeq(pool, LAMBDA negotiation :
        ~(t - negotiation.timestamp > MAX_NEGOTIATION_AGE))

\* The loop of the trim: the address of the first negotiation, in key order,
\* whose difference to now is smaller than that of all before it and no
\* larger than that of any after it.
MostRecentAddress(pool, t) ==
    LET difference(i) == t - pool[i].timestamp
        i == CHOOSE k \in 1..Len(pool) :
                 /\ \A j \in 1..Len(pool) : difference(k) <= difference(j)
                 /\ \A j \in 1..(k - 1) : difference(j) > difference(k)
    IN  pool[i].address

\* The trim: `delete book[mostRecentAddress]`, a key of the book.
TrimNewest(b, networkId, t) ==
    IF Len(b[networkId]) > MAX_NEGOTIATIONS
    THEN [n \in DOMAIN b \ {MostRecentAddress(b[networkId], t)} |-> b[n]]
    ELSE b

\* The POST handler of the earlier variant: the book it leaves and what the
\* client receives.
HandleNegotiation(b, body, t) ==
    LET nope == BodyNope(body)
        networkId == body.networkId
        b1 == EnsurePool(b, networkId)
        matched == Match(b1[networkId], Negotiation(body, t))
        b2 == [b1 EXCEPT ![networkId] = CollectOld(matched.pool, t)]
    IN  IF nope # ""
        THEN [book |-> b,
              last |-> OldOutcome("POST", body, 400, nope, <<>>, EmptyBook, {})]
        ELSE [book |-> TrimNewest(b2, networkId, t),
              last |-> OldOutcome("POST", body, 200, "", matched.sent,
                                  EmptyBook, matched.removed)]

newVars == <<book, now, nextSweep, strict, crashed, last, inflight>>

Negotiate(body) ==
    /\ LET result == HandleNegotiation(oldBook, body, oldNow)
       IN  /\ oldBook' = result.book
           /\ oldLast' = result.last
    /\ UNCHANGED <<oldNow, newVars>>

\* if (req.method === 'GET'): the whole book, as it is.
OldGet ==
    /\ oldLast' = OldOutcome("GET", NoBody, 200, "", <<>>, oldBook, {})
    /\ UNCHANGED <<oldBook, oldNow, newVars>>

\* Time passes.
OldTick ==
    /\ oldNow < MaxTime
    /\ oldNow' = oldNow + 1
    /\ oldLast' = OldIdle
    /\ UNCHANGED <<oldBook, newVars>>

\* The requests of SpecMatching: offers and answers of two addresses with
\* two connectionIds on one network, and two bodies that are rejected.
MatchingBodies ==
    { Body(type, address, "N1", connectionId, "x") :
        type \in {"offer", "answer"}, address \in Addresses,
        connectionId \in {"c1", "c2"} }
    \cup {NoBody, Body("candidate", "A", "N1", "c1", "x")}

NextMatching ==
    \/ \E body \in MatchingBodies : Negotiate(body)
    \/ OldGet
    \/ OldTick

SpecMatching == Init /\ [][NextMatching]_vars

\* The requests of SpecTrim: offers of three addresses on network N1, and of
\* address A on a network whose id is the string "C".
TrimBodies ==
    { Body("offer", address, "N1", "c1", "x") : address \in {"A", "B", "C"} }
    \cup {Body("offer", "A", "C", "c1", "x")}

NextTrim ==
    \/ \E body \in TrimBodies : Negotiate(body)
    \/ OldGet
    \/ OldTick

SpecTrim == Init /\ [][NextTrim]_vars

(***************************************************************************)
(* What the properties below speak of.                                     *)
(***************************************************************************)
Accepted(outcome) == outcome.op = "POST" /\ outcome.status = 200

MailboxOf(b, n) == IF n \in DOMAIN b THEN b[n].negotiationItems ELSE <<>>

PresenceOf(b, n) == IF n \in DOMAIN b THEN DOMAIN b[n].addresses ELSE {}

Age(b, n, a) == now - b[n].addresses[a]

Count(items, Test(_)) == Cardinality({i \in 1..Len(items) : Test(items[i])})

\* C1: after a POST request completes, the mailbox of every network holds at
\* most MAX_NEGOTIATIONS_ITEMS_PER_NETWORK items, however many were submitted.
Capacity ==
    ~crashed =>
        \A n \in DOMAIN book :
            Len(book[n].negotiationItems) <= MAX_NEGOTIATIONS_ITEMS_PER_NETWORK

\* A request was answered with more items than the mailbox may hold (so the
\* mailbox was over capacity when it was answered), and the mailbox is full.
CapacityWitness ==
    /\ Accepted(last)
    /\ Len(last.negotiationItems) > MAX_NEGOTIATIONS_ITEMS_PER_NETWORK
    /\ Len(MailboxOf(book, last.request.networkId))
           = MAX_NEGOTIATIONS_ITEMS_PER_NETWORK

\* The addresses a step removes from the presence table of network n, and
\* what a step pushes: the batch of a POST that reached the store.
Departed(n) == PresenceOf(book, n) \ PresenceOf(book', n)

Pushed ==
    IF last'.op = "POST" /\ last'.request.networkId \in DOMAIN book'
    THEN last'.request.negotiationItems ELSE <<>>

\* C2: once a request or a sweep evicts an address from a network's
\* presence table, no item that was in that network's mailbox with that
\* address as `from` or as `for` is left in it: what the mailbox then holds
\* for or from the address is at most what the same request pushed.
Cascade ==
    [][\A n \in DOMAIN book \cap DOMAIN book' : \A a \in Departed(n) :
          Count(MailboxOf(book', n), LAMBDA item : item.from = a \/ item.for = a)
              <= Count(Pushed, LAMBDA item : item.from = a \/ item.for = a)]_vars

\* C3: after a sweep no network with an empty presence table is left in the
\* registry.
Reclaim ==
    last.op = "sweep" => \A n \in DOMAIN book : PresenceOf(book, n) # {}

\* C4: right after an eviction pass (a sweep, or a POST request on its
\* network) no address of the presence table is older than MAX_ADDRESS_AGE,
\* and the addresses of a POST response are those of that table.
FreshAfterEviction ==
    /\ last.op = "sweep" =>
           \A n \in DOMAIN book : \A a \in PresenceOf(book, n) :
               Age(book, n, a) <= MAX_ADDRESS_AGE
    /\ Accepted(last) =>
           LET n == last.request.networkId
           IN  /\ n \in DOMAIN book
               /\ last.addresses = PresenceOf(book, n)
               /\ \A a \in last.addresses : Age(book, n, a) <= MAX_ADDRESS_AGE

\* A POST request whose eviction pass deleted an address.
FreshAfterEvictionWitness ==
    /\ Accepted(last)
    /\ last.departed # {}
    /\ last.addresses = {last.request.address}

\* The mailbox of network n as a POST step leaves it after its append and
\* eviction steps: what the mailbox held, then the batch, without the items
\* sent by an address the step evicted.
AfterAppendAndEviction(n) ==
    SelectSeq(MailboxOf(book, n) \o last'.request.negotiationItems,
              LAMBDA item : item.from \notin Departed(n))

Range(items) == {items[i] : i \in 1..Len(items)}

\* C5: the items a POST request is answered with are exactly the items of
\* its network's mailbox, after the append and eviction steps, that are for
\* the requester, in arrival order.
Delivery ==
    [][Accepted(last') =>
          last'.negotiationItems =
              SelectSeq(AfterAppendAndEviction(last'.request.networkId),
                        LAMBDA item : item.for = last'.request.address)]_vars

\* B polls and is answered with the item A submitted for it, while A is
\* present and the mailbox holds an item that is not for B.
DeliveryWitness ==
    /\ Accepted(last)
    /\ last.request.address = "B"
    /\ "A" \in last.addresses
    /\ Item("A", "B", Offer) \in Range(last.negotiationItems)
    /\ \E item \in Range(MailboxOf(book, "N1")) : item.for # "B"

TrimKeepsNewest ==
    [][Accepted(last') =>
          LET m == AfterAppendAndEviction(last'.request.networkId)
          IN  Len(m) > MAX_NEGOTIATIONS_ITEMS_PER_NETWORK =>
                  MailboxOf(book', last'.request.networkId) =
                      SubSeq(m, Len(m) - MAX_NEGOTIATIONS_ITEMS_PER_NETWORK + 1,
                             Len(m))]_vars

\* C8: when the mailbox is over capacity after the append and eviction steps
\* of a request, the response still has every item for the requester, those
\* beyond the maximum included.
RespondBeforeTrim ==
    [][Accepted(last') =>
          LET m == AfterAppendAndEviction(last'.request.networkId)
              a == last'.request.address
          IN  Len(m) > MAX_NEGOTIATIONS_ITEMS_PER_NETWORK =>
                  /\ Len(last'.negotiationItems)
                         = Count(m, LAMBDA item : item.for = a)
                  /\ \A i \in (MAX_NEGOTIATIONS_ITEMS_PER_NETWORK + 1)..Len(m) :
                         m[i].for = a => m[i] \in Range(last'.negotiationItems)]_vars

\* A request was answered with more items for the requester than the mailbox
\* holds for it once the request is over: the trim removed a delivered item.
RespondBeforeTrimWitness ==
    /\ Accepted(last)
    /\ Len(last.negotiationItems) >
           Count(MailboxOf(book, last.request.networkId),
                 LAMBDA item : item.for = last.request.address)

ItemAge(item) == now - item.negotiation.timestamp[1]

\* C9: every request and every sweep removes the items older than the
\* negotiation TTL from the mailbox, so none is left after a sweep, and none
\* is left or returned after a POST request on that network.
AgeEviction ==
    /\ last.op = "sweep" =>
           \A n \in DOMAIN book : \A item \in Range(MailboxOf(book, n)) :
               ItemAge(item) <= NegotiationTtl
    /\ Accepted(last) =>
           \A item \in Range(MailboxOf(book, last.request.networkId))
                           \cup Range(last.negotiationItems) :
               ItemAge(item) <= NegotiationTtl

\* C10: a POST request that is answered with a rejection leaves the registry
\* as it was.
RejectedUntouched ==
    [][(last'.op = "POST" /\ last'.status = 400) => book' = book]_vars

\* C11: a GET returns the whole registry and changes nothing: no eviction
\* runs and no network is created; as long as nothing but GETs follow it,
\* the registry is still what it returned, so every further GET returns the
\* same output.
ReadOnlyQuery ==
    /\ [][last'.op = "GET" => (book' = book /\ last'.body = book)]_vars
    /\ [](last.op = "GET" => last.body = book)

\* A GET was answered while the registry held an address older than the
\* address TTL: the answer shows it, and it is still there.
ReadOnlyQueryWitness ==
    /\ last.op = "GET"
    /\ last.body = book
    /\ \E n \in DOMAIN book : \E a \in DOMAIN book[n].addresses :
           /\ Age(book, n, a) > MAX_ADDRESS_AGE
           /\ a \in DOMAIN last.body[n].addresses

\* C14: a network leaves the registry only with an empty presence table: no
\* request and no sweep deletes a network one of whose addresses is still
\* within the address TTL (and so survives the eviction of that step),
\* whether or not its mailbox is empty.
DeletedOnlyWhenEmpty ==
    [][\A n \in DOMAIN book \ DOMAIN book' :
           \A a \in DOMAIN book[n].addresses :
               Age(book, n, a) > MAX_ADDRESS_AGE]_vars

\* A sweep has run over a network that has a presence entry and an empty
\* mailbox, and the network is still in the registry.
DeletedOnlyWhenEmptyWitness ==
    /\ last.op = "sweep"
    /\ \E n \in DOMAIN book :
           /\ DOMAIN book[n].addresses # {}
           /\ book[n].negotiationItems = <<>>

\* An eviction pass has just run over network n: a sweep, or a POST request
\* on n that reached the store.
PassedOver(n) ==
    \/ last'.op = "sweep"
    \/ Accepted(last') /\ last'.request.networkId = n

Toucher(n) ==
    IF Accepted(last') /\ last'.request.networkId = n
    THEN {last'.request.address} ELSE {}

\* C15: a request or a sweep removes from a presence table exactly the
\* addresses whose last contact is strictly more than the address TTL ago:
\* an address whose last contact is at most the TTL old is never removed,
\* and after a pass over its network no older one is left (the requester
\* counts as contacted now).
ExactEviction ==
    [][\A n \in DOMAIN book : \A a \in DOMAIN book[n].addresses :
           /\ a \in Departed(n) => Age(book, n, a) > MAX_ADDRESS_AGE
           /\ (PassedOver(n) /\ a \notin Departed(n) \cup Toucher(n))
                  => Age(book, n, a) <= MAX_ADDRESS_AGE]_vars

\* A sweep removed an address and kept another whose last contact was
\* exactly the TTL ago.
ExactEvictionWitness ==
    /\ last.op = "sweep"
    /\ last.departed # {}
    /\ \E n \in DOMAIN book : \E a \in DOMAIN book[n].addresses :
           Age(book, n, a) = MAX_ADDRESS_AGE

\* C16: every item stored in a mailbox carries an enqueue timestamp (the
\* append stamps the items that come without one), and so does every item
\* returned in a response.
EnqueueStamped ==
    /\ \A n \in DOMAIN book : \A item \in Range(book[n].negotiationItems) :
           item.negotiation.timestamp # NoTimestamp
    /\ \A item \in Range(last.negotiationItems) :
           item.negotiation.timestamp # NoTimestamp

\* C17: after an accepted POST request its network is in the registry, the
\* requester is in that network's presence table, contacted now, and in the
\* addresses of the response; the request does not leave its network with
\* an empty presence table.
RequesterPresent ==
    Accepted(last) =>
        LET n == last.request.networkId
            a == last.request.address
        IN  /\ n \in DOMAIN book
            /\ a \in DOMAIN book[n].addresses
            /\ book[n].addresses[a] = now
            /\ a \in last.addresses
            /\ DOMAIN book[n].addresses # {}

\* A POST request, later than the first sweep, whose eviction pass deleted
\* another address and left the requester.
RequesterPresentWitness ==
    /\ Accepted(last)
    /\ now >= CLEAN_INTERVAL
    /\ \E d \in last.departed : d[2] # last.request.address
    /\ last.request.address \in last.addresses

\* C18: when every submitted item names its submitter as `from`, each item
\* in a mailbox has a `from` that is in the presence table of its network,
\* after every request and every sweep; so a network with an empty presence
\* table has an empty mailbox.
SenderPresent ==
    \A n \in DOMAIN book :
        /\ \A item \in Range(book[n].negotiationItems) :
               item.from \in DOMAIN book[n].addresses
        /\ DOMAIN book[n].addresses = {} => book[n].negotiationItems = <<>>

\* A sweep deleted an address, and the mailbox still holds an item: one of
\* an address that stayed.
SenderPresentWitness ==
    /\ last.op = "sweep"
    /\ last.departed # {}
    /\ \E n \in DOMAIN book : book[n].negotiationItems # <<>>

Only(b, n) == [m \in DOMAIN b \cap {n} |-> b[m]]

\* C12: a POST request for network n changes nothing but n's entry of the
\* registry and reads nothing else: every other network is as it was, and
\* the response and n's new state are those the request has on a registry
\* that holds n alone; the response lists only addresses present on n and
\* items that were in n's mailbox or in the request, although the other
\* network knows the same addresses.
Isolation ==
    [][last'.op = "POST" =>
          LET n == last'.request.networkId
              alone == HandlePost(Only(book, n), last'.request, now, strict)
          IN  /\ DOMAIN book' \subseteq DOMAIN book \cup {n}
              /\ \A m \in DOMAIN book \ {n} :
                     m \in DOMAIN book' /\ book'[m] = book[m]
              /\ last' = alone.last
              /\ Only(book', n) = alone.book
              /\ last'.addresses \subseteq PresenceOf(book', n)
              /\ Range(last'.negotiationItems) \subseteq
                     Range(MailboxOf(book, n))
                         \cup Range(last'.request.negotiationItems)]_vars

\* A POST request was answered on one network while the other network held
\* the requester with a last contact older than the address TTL and an item
\* for it: the address is still there, and the item is not in the response.
IsolationWitness ==
    /\ Accepted(last)
    /\ \E m \in DOMAIN book \ {last.request.networkId} :
           /\ last.request.address \in DOMAIN book[m].addresses
           /\ Age(book, m, last.request.address) > MAX_ADDRESS_AGE
           /\ \E item \in Range(book[m].negotiationItems) :
                  /\ item.for = last.request.address
                  /\ item \notin Range(last.negotiationItems)

InHandler(handler) == handler.step \notin {"closed", "receiving"}

\* While the end callback of c is between its first and its last store
\* step, the step taken is its own.
OwnStep(c) ==
    InHandler(inflight[c]) =>
        /\ inflight'[c].step # inflight[c].step
        /\ \A d \in Connections \ {c} : inflight'[d] = inflight[d]
        /\ nextSweep' = nextSweep
        /\ now' = now

\* The request of c, handled at once on the book its end callback found.
AtOnce(c) ==
    HandlePost(IF InHandler(inflight[c]) THEN inflight[c].start ELSE book,
               Parse(inflight[c].stringifiedBody), now, strict)

\* When the end callback of c returns, it leaves what AtOnce leaves.
AsAtOnce(c) ==
    (inflight[c] # Closed /\ inflight'[c] = Closed) =>
        /\ book' = AtOnce(c).book
        /\ last' = AtOnce(c).last
        /\ crashed' = AtOnce(c).crashed

\* C13: the store steps of a request run atomically, however the requests
\* in flight, their body chunks and the sweep interleave.  While the end
\* callback of a request is between its first and its last store step, every
\* step taken is a step of that callback: no other request starts, receives
\* a chunk or goes on, and no sweep, GET or clock tick happens.  So the
\* registry and the response a request leaves are those of handling it at
\* once on the registry it found.
Atomic == [][\A c \in Connections : OwnStep(c) /\ AsAtOnce(c)]_vars

\* The end callback of one request is past its first store step, with the
\* registry no longer as it found it, while another request has received a
\* part of its body and the sweep is due.
AtomicWitness ==
    \E c, d \in Connections :
        /\ inflight[c].step \in {"push", "clean", "respond", "trim"}
        /\ book # inflight[c].start
        /\ inflight[d].step = "receiving"
        /\ inflight[d].stringifiedBody # <<>>
        /\ inflight[d].wire # <<>>
        /\ now = nextSweep

\* C19: in the earlier variant matching keys on the connectionId alone: a
\* stored negotiation that the matching of an incoming offer or answer
\* removes has the connectionId of the incoming one.
MatchByConnectionId ==
    \A negotiation \in oldLast.removed :
        negotiation.connectionId = oldLast.body.connectionId

\* C20: in the earlier variant a request leaves its network with at most
\* MAX_NEGOTIATIONS entries: when there are more after the collection, the
\* trim removes from that network the entry with the most recent timestamp,
\* and no request changes or deletes another network.
TrimToMaximum ==
    [][(oldLast'.op = "POST" /\ oldLast'.status = 200) =>
          LET n == oldLast'.body.networkId
          IN  /\ n \in DOMAIN oldBook'
              /\ Len(oldBook'[n]) <= MAX_NEGOTIATIONS
              /\ \A m \in DOMAIN oldBook \ {n} :
                     m \in DOMAIN oldBook' /\ oldBook'[m] = oldBook[m]]_vars

====
